---- MODULE Spec2Model ----
(***************************************************************************)
(* Quarterback analytics pipeline (qb-qualities).                          *)
(*                                                                         *)
(* A play-by-play table is a bag of rows: a function from a row (a record  *)
(* of the columns the pipeline reads) to the number of identical rows.     *)
(* Real-valued columns are exact rationals <<numerator, denominator>>;     *)
(* the missing value (pandas NaN) is <<0, 0>>, the infinities of float     *)
(* division are <<1, 0>> and <<-1, 0>>.                                    *)
(*                                                                         *)
(* The application is served by a threaded server: a request is a sequence *)
(* of steps (the lookup in the memoize store, the read of the provider,    *)
(* the store of the table), and the steps of requests that run at the same *)
(* time interleave.                                                        *)
(***************************************************************************)
EXTENDS Integers, Sequences, FiniteSets, TLC

VARIABLES
    feed,    \* season -> the table the external provider serves for it
    cache,   \* season -> the memoized entry of fetch_qb_pbp_data, or NoEntry
    now,     \* the clock of the cache, in seconds
    inflight \* request slot -> the request running or finished in it, or idle

vars == <<feed, cache, now, inflight>>

----------------------------------------------------------------------------
(* Bounds of the model *)

\* distinct kinds of row in one table of the qualification family
MaxKinds == 3
\* clock ticks in one behaviour
MaxTicks == 2
\* seconds per clock tick
TickStep == 1800
\* requests for one uncached season that run at the same time
MaxRequests == 2

----------------------------------------------------------------------------
(* Program constants *)

min_dropbacks == 150
min_summary_dropbacks == 200
cache_timeout == 3600
clutch_min_ydstogo == 7
clutch_max_seconds == 300
clutch_max_score_diff == 7
\* a cleared season selection (None); falsy for `if not season`
NoSeason == 0

NoName == "NaN"
NoTeam == "NaN"

----------------------------------------------------------------------------
(* Arithmetic on real-valued columns, as floats do it: a missing operand   *)
(* gives a missing result, a nonzero number over zero is an infinity, and  *)
(* 0/0, inf - inf, 0 * inf and inf/inf are missing.                        *)

NaN == <<0, 0>>
PosInf == <<1, 0>>
NegInf == <<-1, 0>>
IsNaN(r) == r = NaN
IsFinite(r) == r[2] # 0

Abs(x) == IF x < 0 THEN -x ELSE x

Sign(x) == IF x > 0 THEN 1 ELSE IF x < 0 THEN -1 ELSE 0

RECURSIVE Gcd(_, _)
Gcd(a, b) == IF b = 0 THEN a ELSE Gcd(b, a % b)

\* n/d: in lowest terms with a positive denominator if d # 0, an infinity of
\* the sign of n if d = 0 # n, missing if both are 0
Rat(n, d) ==
    IF d = 0 THEN <<Sign(n), 0>>
    ELSE LET g == Gcd(Abs(n), Abs(d))
             s == IF d < 0 THEN -1 ELSE 1
         IN  <<(s * n) \div g, (s * d) \div g>>

Num(i) == <<i, 1>>

RNeg(a) == <<-a[1], a[2]>>

RAdd(a, b) ==
    IF IsNaN(a) \/ IsNaN(b) THEN NaN
    ELSE IF ~IsFinite(a) /\ ~IsFinite(b) THEN (IF a = b THEN a ELSE NaN)
    ELSE IF ~IsFinite(a) THEN a
    ELSE IF ~IsFinite(b) THEN b
    ELSE Rat(a[1] * b[2] + b[1] * a[2], a[2] * b[2])

RSub(a, b) == RAdd(a, RNeg(b))

RMul(a, b) ==
    IF IsNaN(a) \/ IsNaN(b) THEN NaN
    ELSE Rat(a[1] * b[1], a[2] * b[2])

\* a / b; a zero divisor gives an infinity (0/0 is missing), an infinite
\* divisor gives zero
RDiv(a, b) ==
    IF IsNaN(a) \/ IsNaN(b) THEN NaN
    ELSE IF b[1] = 0 THEN Rat(a[1], 0)
    ELSE Rat(a[1] * b[2] * Sign(b[1]), a[2] * Abs(b[1]))

\* a < b; false when either is missing
RLess(a, b) ==
    IF IsNaN(a) \/ IsNaN(b) THEN FALSE
    ELSE IF ~IsFinite(a) /\ ~IsFinite(b) THEN a[1] < b[1]
    ELSE a[1] * b[2] < b[1] * a[2]

RECURSIVE Sum(_, _)
Sum(f, S) ==
    IF S = {} THEN 0
    ELSE LET x == CHOOSE y \in S : TRUE IN f[x] + Sum(f, S \ {x})

RECURSIVE RSum(_, _)
RSum(f, S) ==
    IF S = {} THEN Num(0)
    ELSE LET x == CHOOSE y \in S : TRUE IN RAdd(f[x], RSum(f, S \ {x}))

----------------------------------------------------------------------------
(* Column aggregations of a group of rows.  n[r] is the number of copies   *)
(* of row r, col[r] its value; sum, mean and count skip missing values.    *)

Present(col) == {r \in DOMAIN col : ~IsNaN(col[r])}

ColCount(n, rows, col) ==
    Sum([r \in Present(col) |-> n[r]], Present(col))

ColSum(n, rows, col) ==
    RSum([r \in Present(col) |-> RMul(Num(n[r]), col[r])], Present(col))

ColMean(n, rows, col) ==
    LET c == ColCount(n, rows, col)
    IN  IF c = 0 THEN NaN ELSE RDiv(ColSum(n, rows, col), Num(c))

\* groupby(...).size(): every row counts
GroupSize(n, rows) == Sum([r \in rows |-> n[r]], rows)

----------------------------------------------------------------------------
(* fetch_qb_pbp_data: the play normalizer *)

\* pbp[pbp['qb_dropback'] == 1]
Dropbacks(pbp) ==
    [r \in {x \in DOMAIN pbp : x.qb_dropback = 1} |-> pbp[r]]

\* the defensive aggregates of one group of rows
def_group(d, rows) ==
    LET cnt == GroupSize(d, rows)
    IN  [def_epa_per_dropback     |-> ColMean(d, rows, [r \in rows |-> r.epa]),
         def_success_rate_allowed |-> ColMean(d, rows, [r \in rows |-> Num(r.success)]),
         def_pressure_rate        |->
             RDiv(ColSum(d, rows, [r \in rows |-> Num(r.qb_hit)]), Num(cnt)),
         def_dropbacks            |-> cnt]

\* dropbacks.groupby(['season', 'passer_player_name']).size()
qb_counts(d) ==
    [p \in {r.passer_player_name : r \in DOMAIN d} \ {NoName} |->
        GroupSize(d, {r \in DOMAIN d : r.passer_player_name = p})]

\* mutant: no minimum number of dropbacks
true_qbs_no_minimum(d) == DOMAIN qb_counts(d)

true_qbs(d) ==
    LET counts == qb_counts(d)
    IN  {p \in DOMAIN counts : counts[p] >= min_dropbacks}

\* mutant: the defensive context computed from the qualified passers' plays only
def_metrics_of_true_qbs(d) ==
    [t \in {r.defteam : r \in DOMAIN d} \ {NoTeam} |->
        def_group(d, {r \in DOMAIN d :
                        r.defteam = t /\ r.passer_player_name \in true_qbs(d)})]

\* groupby(['season', 'defteam']): rows with a missing key form no group
def_metrics(d) ==
    [t \in {r.defteam : r \in DOMAIN d} \ {NoTeam} |->
        def_group(d, {r \in DOMAIN d : r.defteam = t})]

\* mutant: sacks are counted as pressures on top of the hits
ol_metrics_sacks_as_pressures(d) ==
    [t \in {r.posteam : r \in DOMAIN d} \ {NoTeam} |->
        LET rows == {r \in DOMAIN d : r.posteam = t}
            cnt  == GroupSize(d, rows)
            pressures_allowed ==
                ColSum(d, rows, [r \in rows |-> Num(r.qb_hit + r.sack)])
            sacks_allowed     == ColSum(d, rows, [r \in rows |-> Num(r.sack)])
        IN  [pressures_allowed |-> pressures_allowed,
             sacks_allowed     |-> sacks_allowed,
             dropbacks         |-> cnt,
             pressure_rate     |-> RDiv(pressures_allowed, Num(cnt)),
             sack_rate         |-> RDiv(sacks_allowed, Num(cnt))]]

\* groupby(['season', 'posteam'])
ol_metrics(d) ==
    [t \in {r.posteam : r \in DOMAIN d} \ {NoTeam} |->
        LET rows == {r \in DOMAIN d : r.posteam = t}
            cnt  == GroupSize(d, rows)
            pressures_allowed == ColSum(d, rows, [r \in rows |-> Num(r.qb_hit)])
            sacks_allowed     == ColSum(d, rows, [r \in rows |-> Num(r.sack)])
        IN  [pressures_allowed |-> pressures_allowed,
             sacks_allowed     |-> sacks_allowed,
             dropbacks         |-> cnt,
             pressure_rate     |-> RDiv(pressures_allowed, Num(cnt)),
             sack_rate         |-> RDiv(sacks_allowed, Num(cnt))]]

\* the columns a left join leaves missing for a row without a match
NoDefMetrics ==
    [def_epa_per_dropback |-> NaN, def_success_rate_allowed |-> NaN,
     def_pressure_rate |-> NaN]

NoOlMetrics == [pressure_rate |-> NaN, sack_rate |-> NaN]

\* mutant: the score differential compared without its absolute value
clutch_situation_signed(r) ==
    /\ r.down \in {3, 4}
    /\ r.ydstogo >= clutch_min_ydstogo
    /\ r.game_seconds_remaining <= clutch_max_seconds
    /\ r.score_differential <= clutch_max_score_diff

clutch_situation(r) ==
    /\ r.down \in {3, 4}
    /\ r.ydstogo >= clutch_min_ydstogo
    /\ r.game_seconds_remaining <= clutch_max_seconds
    /\ Abs(r.score_differential) <= clutch_max_score_diff

adj_epa(epa, def_epa_per_dropback, pressure_rate) ==
    RDiv(RSub(epa, def_epa_per_dropback), RAdd(Num(1), pressure_rate))

\* mutant: the context tables are joined with inner joins, which drop the
\* rows without a match before the passers are counted
dropbacks_true_qbs_inner_join(pbp) ==
    LET d    == Dropbacks(pbp)
        defm == def_metrics(d)
        olm  == ol_metrics(d)
        j    == [r \in {x \in DOMAIN d : /\ x.defteam \in DOMAIN defm
                                         /\ x.posteam \in DOMAIN olm} |-> d[r]]
        qbs  == true_qbs(j)
    IN  [r \in {x \in DOMAIN j : x.passer_player_name \in qbs} |->
            [n                        |-> j[r],
             def_epa_per_dropback     |-> defm[r.defteam].def_epa_per_dropback,
             def_success_rate_allowed |-> defm[r.defteam].def_success_rate_allowed,
             def_pressure_rate        |-> defm[r.defteam].def_pressure_rate,
             pressure_rate            |-> olm[r.posteam].pressure_rate,
             sack_rate                |-> olm[r.posteam].sack_rate,
             clutch_situation         |-> clutch_situation(r),
             adj_epa                  |->
                 adj_epa(r.epa, defm[r.defteam].def_epa_per_dropback,
                         olm[r.posteam].pressure_rate)]]

\* The table fetch_qb_pbp_data returns for the provider's table pbp: the
\* dropbacks of the qualified passers, each row with its copies (n), its
\* joined context columns, its clutch flag and its adjusted EPA.
dropbacks_true_qbs(pbp) ==
    LET d    == Dropbacks(pbp)
        defm == def_metrics(d)
        olm  == ol_metrics(d)
        qbs  == true_qbs(d)
    IN  [r \in {x \in DOMAIN d : x.passer_player_name \in qbs} |->
            LET dm == IF r.defteam \in DOMAIN defm THEN defm[r.defteam]
                      ELSE NoDefMetrics
                om == IF r.posteam \in DOMAIN olm THEN olm[r.posteam]
                      ELSE NoOlMetrics
            IN  [n                        |-> d[r],
                 def_epa_per_dropback     |-> dm.def_epa_per_dropback,
                 def_success_rate_allowed |-> dm.def_success_rate_allowed,
                 def_pressure_rate        |-> dm.def_pressure_rate,
                 pressure_rate            |-> om.pressure_rate,
                 sack_rate                |-> om.sack_rate,
                 clutch_situation         |-> clutch_situation(r),
                 adj_epa                  |->
                     adj_epa(r.epa, dm.def_epa_per_dropback, om.pressure_rate)]]

\* the copies of each row of a frame
Copies(T) == [r \in DOMAIN T |-> T[r].n]

\* The frames the body of fetch_qb_pbp_data holds on its way to that table:
\* `dropbacks` after the two left joins, with the context columns on every
\* dropback of every passer
dropbacks_merged(pbp) ==
    LET d    == Dropbacks(pbp)
        defm == def_metrics(d)
        olm  == ol_metrics(d)
    IN  [r \in DOMAIN d |->
            LET dm == IF r.defteam \in DOMAIN defm THEN defm[r.defteam]
                      ELSE NoDefMetrics
                om == IF r.posteam \in DOMAIN olm THEN olm[r.posteam]
                      ELSE NoOlMetrics
            IN  [n                        |-> d[r],
                 def_epa_per_dropback     |-> dm.def_epa_per_dropback,
                 def_success_rate_allowed |-> dm.def_success_rate_allowed,
                 def_pressure_rate        |-> dm.def_pressure_rate,
                 pressure_rate            |-> om.pressure_rate,
                 sack_rate                |-> om.sack_rate]]

\* the copy of the rows of the qualified passers
dropbacks_true_qbs_copy(merged) ==
    LET qbs == true_qbs(Copies(merged))
    IN  [r \in {x \in DOMAIN merged : x.passer_player_name \in qbs} |->
            merged[r]]

\* the copy with the clutch_situation column written into it
with_clutch_situation(frame) ==
    [r \in DOMAIN frame |->
        [n                        |-> frame[r].n,
         def_epa_per_dropback     |-> frame[r].def_epa_per_dropback,
         def_success_rate_allowed |-> frame[r].def_success_rate_allowed,
         def_pressure_rate        |-> frame[r].def_pressure_rate,
         pressure_rate            |-> frame[r].pressure_rate,
         sack_rate                |-> frame[r].sack_rate,
         clutch_situation         |-> clutch_situation(r)]]

\* and with the adj_epa column written into it: the table returned
with_adj_epa(frame) ==
    [r \in DOMAIN frame |->
        [n                        |-> frame[r].n,
         def_epa_per_dropback     |-> frame[r].def_epa_per_dropback,
         def_success_rate_allowed |-> frame[r].def_success_rate_allowed,
         def_pressure_rate        |-> frame[r].def_pressure_rate,
         pressure_rate            |-> frame[r].pressure_rate,
         sack_rate                |-> frame[r].sack_rate,
         clutch_situation         |-> frame[r].clutch_situation,
         adj_epa                  |->
             adj_epa(r.epa, frame[r].def_epa_per_dropback,
                     frame[r].pressure_rate)]]

----------------------------------------------------------------------------
(* The aggregations over the normalized table T *)

Passers(T) == {r.passer_player_name : r \in DOMAIN T}

RowsOf(T, p) == {r \in DOMAIN T : r.passer_player_name = p}

\* DataFrame.empty
IsEmpty(T) == DOMAIN T = {}

\* groupby(['season', 'passer_player_name']).agg(...) of fetch_all_qb_pbp_epa
\* and fetch_qb_adj_data, with the two derived columns
qb_adj_row(T, p) ==
    LET n    == Copies(T)
        rows == RowsOf(T, p)
        avg_epa_per_dropback == ColMean(n, rows, [r \in rows |-> r.epa])
        avg_def_epa_allowed  ==
            ColMean(n, rows, [r \in rows |-> T[r].def_epa_per_dropback])
        avg_ol_pressure_rate_allowed ==
            ColMean(n, rows, [r \in rows |-> T[r].pressure_rate])
        epa_vs_expectation == RSub(avg_epa_per_dropback, avg_def_epa_allowed)
    IN  [passer_player_name   |-> p,
         dropbacks            |-> ColCount(n, rows, [r \in rows |-> Num(r.qb_dropback)]),
         total_epa            |-> ColSum(n, rows, [r \in rows |-> r.epa]),
         avg_epa_per_dropback |-> avg_epa_per_dropback,
         avg_def_epa_allowed  |-> avg_def_epa_allowed,
         avg_def_success_rate_allowed |->
             ColMean(n, rows, [r \in rows |-> T[r].def_success_rate_allowed]),
         avg_def_pressure_rate |->
             ColMean(n, rows, [r \in rows |-> T[r].def_pressure_rate]),
         avg_ol_pressure_rate_allowed |-> avg_ol_pressure_rate_allowed,
         avg_ol_sack_rate_allowed |->
             ColMean(n, rows, [r \in rows |-> T[r].sack_rate]),
         epa_vs_expectation   |-> epa_vs_expectation,
         epa_vs_def_and_ol    |->
             RDiv(epa_vs_expectation,
                  RAdd(Num(1), avg_ol_pressure_rate_allowed))]

\* mutant: the summary keeps every qualified passer
AtLeast200_dropped(rows) == rows

\* qb_adj[qb_adj['dropbacks'] >= 200]
AtLeast200(rows) == {q \in rows : q.dropbacks >= min_summary_dropbacks}

\* the rows fetch_all_qb_pbp_epa returns for a non-empty table T
qb_adj(T) == AtLeast200({qb_adj_row(T, p) : p \in Passers(T)})

\* mutant: both sides of the split aggregate all rows of the passer
split_stats_unsplit(T, p, flag) ==
    LET n    == Copies(T)
        rows == RowsOf(T, p)
    IN  [avg   |-> ColMean(n, rows, [r \in rows |-> T[r].adj_epa]),
         total |-> ColSum(n, rows, [r \in rows |-> T[r].adj_epa]),
         plays |-> Num(ColCount(n, rows, [r \in rows |-> T[r].adj_epa]))]

\* mutant: the missing values of the left merge are filled with zero
split_stats_zero_filled(T, p, flag) ==
    LET n    == Copies(T)
        rows == {r \in RowsOf(T, p) : T[r].clutch_situation = flag}
    IN  IF rows = {} THEN [avg |-> Num(0), total |-> Num(0), plays |-> Num(0)]
        ELSE [avg   |-> ColMean(n, rows, [r \in rows |-> T[r].adj_epa]),
              total |-> ColSum(n, rows, [r \in rows |-> T[r].adj_epa]),
              plays |-> Num(ColCount(n, rows, [r \in rows |-> T[r].adj_epa]))]

\* One side of the clutch split of fetch_qb_adj_data: mean, sum and count of
\* adj_epa over the passer's rows whose flag is `flag`, after the left merge
\* onto the summary (a passer with no such row gets missing values).
split_stats(T, p, flag) ==
    LET n    == Copies(T)
        rows == {r \in RowsOf(T, p) : T[r].clutch_situation = flag}
    IN  IF rows = {} THEN [avg |-> NaN, total |-> NaN, plays |-> NaN]
        ELSE [avg   |-> ColMean(n, rows, [r \in rows |-> T[r].adj_epa]),
              total |-> ColSum(n, rows, [r \in rows |-> T[r].adj_epa]),
              plays |-> Num(ColCount(n, rows, [r \in rows |-> T[r].adj_epa]))]

home_qb_adj_row(T, p) ==
    LET q  == qb_adj_row(T, p)
        c  == split_stats(T, p, TRUE)
        nc == split_stats(T, p, FALSE)
    IN  [passer_player_name   |-> q.passer_player_name,
         dropbacks            |-> q.dropbacks,
         total_epa            |-> q.total_epa,
         avg_epa_per_dropback |-> q.avg_epa_per_dropback,
         avg_def_epa_allowed  |-> q.avg_def_epa_allowed,
         avg_def_success_rate_allowed |-> q.avg_def_success_rate_allowed,
         avg_def_pressure_rate |-> q.avg_def_pressure_rate,
         avg_ol_pressure_rate_allowed |-> q.avg_ol_pressure_rate_allowed,
         avg_ol_sack_rate_allowed |-> q.avg_ol_sack_rate_allowed,
         clutch_avg_adj_epa   |-> c.avg,
         clutch_total_adj_epa |-> c.total,
         clutch_plays         |-> c.plays,
         non_clutch_avg_adj_epa   |-> nc.avg,
         non_clutch_total_adj_epa |-> nc.total,
         non_clutch_plays         |-> nc.plays,
         epa_vs_expectation   |-> q.epa_vs_expectation,
         epa_vs_def_and_ol    |-> q.epa_vs_def_and_ol,
         clutch_vs_non_clutch_adj_diff |-> RSub(c.avg, nc.avg)]

\* the rows fetch_qb_adj_data (home page) returns for the provider's table
home_qb_adj(pbp) ==
    LET T == dropbacks_true_qbs(pbp)
    IN  AtLeast200({home_qb_adj_row(T, p) : p \in Passers(T)})

\* the five means of fetch_adv_qb_pbp_stats over a group of rows
adv_means(T, rows) ==
    LET n == Copies(T)
    IN  [avg_cpoe          |-> ColMean(n, rows, [r \in rows |-> r.cpoe]),
         avg_adj_epa       |-> ColMean(n, rows, [r \in rows |-> T[r].adj_epa]),
         avg_pass_yards    |-> ColMean(n, rows, [r \in rows |-> Num(r.yards_gained)]),
         avg_air_yards     |-> ColMean(n, rows, [r \in rows |-> Num(r.air_yards)]),
         avg_pressure_rate |-> ColMean(n, rows, [r \in rows |-> T[r].pressure_rate])]

NoAdvMeans ==
    [avg_cpoe |-> NaN, avg_adj_epa |-> NaN, avg_pass_yards |-> NaN,
     avg_air_yards |-> NaN, avg_pressure_rate |-> NaN]

adv_split(T, p, flag) ==
    LET rows == {r \in RowsOf(T, p) : T[r].clutch_situation = flag}
    IN  IF rows = {} THEN NoAdvMeans ELSE adv_means(T, rows)

adv_qb_row(T, p) ==
    [passer_player_name |-> p,
     overall    |-> adv_means(T, RowsOf(T, p)),
     clutch     |-> adv_split(T, p, TRUE),
     non_clutch |-> adv_split(T, p, FALSE)]

\* adv_qb_stats[adv_qb_stats['passer_player_name'] == qb_name]
adv_qb_stats(T, qb_name) ==
    {q \in {adv_qb_row(T, p) : p \in Passers(T)} :
        q.passer_player_name = qb_name}

\* the rows fetch_all_qb_season_totals returns
qb_season_totals(T) ==
    {LET n    == Copies(T)
         rows == RowsOf(T, p)
     IN  [passer_player_name  |-> p,
          total_dropbacks     |-> ColCount(n, rows, [r \in rows |-> Num(r.qb_dropback)]),
          total_epa           |-> ColSum(n, rows, [r \in rows |-> r.epa]),
          total_yards         |-> ColSum(n, rows, [r \in rows |-> Num(r.yards_gained)]),
          total_air_yards     |-> ColSum(n, rows, [r \in rows |-> Num(r.air_yards)]),
          mean_cpoe           |-> ColMean(n, rows, [r \in rows |-> r.cpoe]),
          total_touchdowns    |-> ColSum(n, rows, [r \in rows |-> Num(r.touchdown)]),
          total_interceptions |-> ColSum(n, rows, [r \in rows |-> Num(r.interception)]),
          mean_success_rate   |-> ColMean(n, rows, [r \in rows |-> Num(r.success)])]
     : p \in Passers(T)}

----------------------------------------------------------------------------
(* Charts: one bar per row and trace.  pos is the bar's place after        *)
(* sort_values(ascending=True); missing keys sort last, and the sort does  *)
(* not fix the order of rows with equal keys.                              *)

NoQb == "None"

KeyLess(a, b) == ~IsNaN(a) /\ (IsNaN(b) \/ RLess(a, b))

\* total_touchdowns / (total_interceptions + 1e-6), compared exactly:
\* td1 / (i1 + e) < td2 / (i2 + e)  iff  td1*i2 + td1*e < td2*i1 + td2*e
td_int_less(a, b) ==
    LET td1 == a.total_touchdowns[1]
        td2 == b.total_touchdowns[1]
        i1  == a.total_interceptions[1]
        i2  == b.total_interceptions[1]
    IN  \/ td1 * i2 < td2 * i1
        \/ td1 * i2 = td2 * i1 /\ td1 < td2

highlight(qb_name, name) ==
    IF qb_name = NoQb \/ name = qb_name THEN Num(1) ELSE Rat(1, 2)

\* pos[q]: the place of row q in the sorted frame
bars(chart, rows, traces, pos, qb_name) ==
    {[chart   |-> chart,
      trace   |-> c,
      passer_player_name |-> q.passer_player_name,
      x       |-> q[c],
      opacity |-> highlight(qb_name, q.passer_player_name),
      pos     |-> pos[q]]
     : q \in rows, c \in traces}

\* sort_values(by=column): the pairs of rows whose keys differ, the smaller
\* key first
LessBy(rows, column) ==
    {pr \in rows \X rows : KeyLess(pr[1][column], pr[2][column])}

\* sort_values(by='td_int_ratio')
LessByTdInt(rows) ==
    {pr \in rows \X rows : td_int_less(pr[1], pr[2])}

\* the places a sort may give the rows: every numbering that keeps the
\* pairs of less in order; rows with equal keys may come in any order
Orders(rows, less) ==
    {pos \in [rows -> 1..Cardinality(rows)] :
        /\ \A o, q \in rows : o # q => pos[o] # pos[q]
        /\ \A pr \in less : pos[pr[1]] < pos[pr[2]]}

\* the three grouped bar traces of the home page chart (no sort, no highlight)
home_bars(rows) ==
    {[chart |-> "home_epa", trace |-> c,
      passer_player_name |-> q.passer_player_name, x |-> q[c]]
     : q \in rows,
       c \in {"epa_vs_expectation", "epa_vs_def_and_ol",
              "clutch_vs_non_clutch_adj_diff"}}

----------------------------------------------------------------------------
(* Inputs: the tables the provider may serve *)

EmptyTable == [r \in {} |-> 0]

\* an early-game first-down dropback of passer A, offense X against defense Y
BasePlay ==
    [passer_player_name |-> "A", posteam |-> "X", defteam |-> "Y",
     qb_dropback |-> 1, down |-> 1, ydstogo |-> 10,
     game_seconds_remaining |-> 1800, score_differential |-> 0,
     epa |-> Num(0), success |-> 0, qb_hit |-> 0, sack |-> 0,
     yards_gained |-> 5, air_yards |-> 4, cpoe |-> Num(1),
     touchdown |-> 0, interception |-> 0]

\* the same play late in a close game on third and long
ClutchPlay(r) ==
    [r EXCEPT !.down = 3, !.ydstogo = 7, !.game_seconds_remaining = 300,
              !.score_differential = 7]

PlayOfB ==
    [BasePlay EXCEPT !.passer_player_name = "B", !.epa = Rat(1, 2),
                     !.success = 1, !.yards_gained = 8, !.touchdown = 1,
                     !.cpoe = Num(2)]

\* all tables of at most MaxKinds kinds of row, each kind with a count
TablesOf(kinds, counts) ==
    UNION {[P -> counts] :
           P \in {Q \in SUBSET kinds : Cardinality(Q) <= MaxKinds}}

\* qualification: a passer's plays, clutch or not, a play of a second
\* passer, a play that is no dropback, and a dropback without passer name;
\* counts around both thresholds
QualKinds ==
    {BasePlay, ClutchPlay(BasePlay), PlayOfB,
     [BasePlay EXCEPT !.qb_dropback = 0],
     [BasePlay EXCEPT !.passer_player_name = NoName]}

QualCounts == {49, 50, 100, 150}

\* situations: one qualified passer whose plays all share one situation,
\* around each boundary of the clutch definition
SituationTables ==
    {[r \in {[BasePlay EXCEPT !.down = d, !.ydstogo = y,
                              !.game_seconds_remaining = t,
                              !.score_differential = sd]} |-> min_dropbacks]
     : d \in 1..4, y \in {6, 7}, t \in {300, 301}, sd \in {-8, -7, 7, 8}}

\* context: plays that differ in epa, hits and sacks, a play without
\* offensive team, one without defensive team, and a play of another
\* passer and offense against the same defense
CtxKinds ==
    {BasePlay,
     [BasePlay EXCEPT !.epa = Rat(1, 2), !.success = 1],
     [BasePlay EXCEPT !.qb_hit = 1],
     [BasePlay EXCEPT !.epa = Rat(1, 2), !.posteam = NoTeam],
     [BasePlay EXCEPT !.epa = Rat(1, 2), !.defteam = NoTeam],
     [PlayOfB EXCEPT !.posteam = "Z", !.epa = Rat(-1, 2), !.qb_hit = 1,
                     !.sack = 1]}

CtxCounts == {40, 50, 110}

\* the clutch split: plays of one passer on either side of the split, with
\* and without a defensive team, so that a passer may have no play on a
\* side, or plays on both sides of which some have no adjusted EPA
SplitKinds ==
    {BasePlay, ClutchPlay(BasePlay),
     [BasePlay EXCEPT !.defteam = NoTeam],
     ClutchPlay([BasePlay EXCEPT !.defteam = NoTeam])}

SplitCounts == {50, 150}

\* the seasons of the full system and the tables served for them
Seasons == {2022, 2023}

OneQb150 == [r \in {BasePlay} |-> 150]

\* the season of the scenario: A has 200 dropbacks, 50 of them clutch; B has 100
ScenarioTable ==
    [r \in {BasePlay, ClutchPlay(BasePlay), PlayOfB} |->
        IF r = BasePlay THEN 150 ELSE IF r = PlayOfB THEN 100 ELSE 50]

TwoQbs200 ==
    [r \in {BasePlay, ClutchPlay(BasePlay), PlayOfB, ClutchPlay(PlayOfB)} |->
        IF r \in {BasePlay, PlayOfB} THEN 150 ELSE 50]

\* two passers with the same plays: every sort key of the charts is tied
TiedQbs200 ==
    [r \in {BasePlay, [BasePlay EXCEPT !.passer_player_name = "B"]} |-> 200]

SystemTables == {EmptyTable, OneQb150, TwoQbs200}

\* the inputs of the pipeline: the four families and two seasons with two
\* passers
PipelineTables ==
    TablesOf(QualKinds, QualCounts) \cup SituationTables
        \cup TablesOf(CtxKinds, CtxCounts)
        \cup TablesOf(SplitKinds, SplitCounts)
        \cup {ScenarioTable, TwoQbs200}

QbNames == {"A", "B"}

----------------------------------------------------------------------------
(* The memoize store of fetch_qb_pbp_data (timeout 3600), the provider,    *)
(* and what each function computes from the table handed to it.  A result  *)
(* is a set of possible outcomes: a sort may order equal keys either way.  *)

NoEntry == [present |-> FALSE, table |-> EmptyTable, expires |-> 0]

\* mutant: the store never answers
Hit_never(c, season) == FALSE

\* cache.get: an entry not yet expired
Hit(c, season) ==
    /\ season \in DOMAIN c
    /\ c[season].present
    /\ now < c[season].expires

\* mutant: an empty table is not stored
Store_unless_empty(c, season, table) ==
    IF IsEmpty(table) THEN c
    ELSE [c EXCEPT ![season] =
            [present |-> TRUE, table |-> table,
             expires |-> now + cache_timeout]]

\* cache.set(key of season, table, timeout)
Store(c, season, table) ==
    [c EXCEPT ![season] =
        [present |-> TRUE, table |-> table, expires |-> now + cache_timeout]]

\* nfl.import_pbp_data([season]): the table of the season, or a failure;
\* a cleared selection is no season the provider serves
import_pbp_data(season) ==
    {[failed |-> TRUE, pbp |-> EmptyTable]}
        \cup (IF season \in DOMAIN feed
              THEN {[failed |-> FALSE, pbp |-> feed[season]]} ELSE {})

Returned(value) == [status |-> "ok", value |-> value]

Raised(error) == [status |-> error, value |-> {}]

\* raise ValueError(f"No data found for season {season}.")
RaiseIfEmpty(T, value) ==
    IF IsEmpty(T) THEN Raised("ValueError") ELSE Returned(value)

\* the normalized table as a set of rows: a play, its number of copies and
\* its added columns
TableRows(T) ==
    {[passer_player_name |-> r.passer_player_name, play |-> r,
      columns |-> T[r]] : r \in DOMAIN T}

\* T is the table fetch_qb_pbp_data returned
call_fetch_qb_pbp_data(T) == {Returned(TableRows(T))}

call_fetch_all_qb_pbp_epa(T) == {RaiseIfEmpty(T, qb_adj(T))}

call_fetch_adv_qb_pbp_stats(T, qb_name) ==
    {RaiseIfEmpty(T, adv_qb_stats(T, qb_name))}

call_fetch_all_qb_season_totals(T) == {Returned(qb_season_totals(T))}

\* fetch_qb_adj_data of the home page works on the provider's table itself
call_fetch_qb_adj_data(pbp) == {Returned(home_qb_adj(pbp))}

\* a chart builder draws the rows of its view in one of the orders the sort
\* may give, or raises the view's error
Drawn(o, figures) ==
    IF o.status = "ok" THEN {Returned(f) : f \in figures} ELSE {o}

\* the rows of the selected quarterback (all rows if none is selected)
Selected(rows, qb_name) ==
    {q \in rows : qb_name = NoQb \/ q.passer_player_name = qb_name}

\* mutant: the chart keeps only the selected quarterback's rows
call_make_all_qbs_epa_adj_chart_selected_only(T, qb_name) ==
    UNION {Drawn(o, {bars("epa", Selected(o.value, qb_name),
                          {"avg_epa_per_dropback", "epa_vs_def_and_ol"},
                          pos, qb_name)
                     : pos \in Orders(Selected(o.value, qb_name),
                                      LessBy(Selected(o.value, qb_name),
                                             "avg_epa_per_dropback"))})
           : o \in call_fetch_all_qb_pbp_epa(T)}

call_make_all_qbs_epa_adj_chart(T, qb_name) ==
    UNION {Drawn(o, {bars("epa", o.value,
                          {"avg_epa_per_dropback", "epa_vs_def_and_ol"},
                          pos, qb_name)
                     : pos \in Orders(o.value,
                                      LessBy(o.value,
                                             "avg_epa_per_dropback"))})
           : o \in call_fetch_all_qb_pbp_epa(T)}

call_make_all_qbs_yards_chart(T, qb_name) ==
    UNION {Drawn(o, {bars("yards", o.value, {"total_yards"}, pos, qb_name)
                     : pos \in Orders(o.value,
                                      LessBy(o.value, "total_yards"))})
           : o \in call_fetch_all_qb_season_totals(T)}

call_make_all_qbs_td_int_chart(T, qb_name) ==
    UNION {Drawn(o, {bars("td_int", o.value,
                          {"total_touchdowns", "total_interceptions"},
                          pos, qb_name)
                     : pos \in Orders(o.value, LessByTdInt(o.value))})
           : o \in call_fetch_all_qb_season_totals(T)}

call_make_all_qbs_mean_cpoe_chart(T, qb_name) ==
    UNION {Drawn(o, {bars("mean_cpoe", o.value, {"mean_cpoe"}, pos, qb_name)
                     : pos \in Orders(o.value, LessBy(o.value, "mean_cpoe"))})
           : o \in call_fetch_all_qb_season_totals(T)}

call_make_qb_epa_adj_chart(pbp) ==
    UNION {Drawn(o, {home_bars(o.value)}) : o \in call_fetch_qb_adj_data(pbp)}

\* fetch_all_qb_season_totals(season)['passer_player_name'].unique()
call_update_qb_dropdown(T) ==
    UNION {Drawn(o, {{q.passer_player_name : q \in o.value}})
           : o \in call_fetch_all_qb_season_totals(T)}

\* the functions that read the provider themselves, without the store
Uncached == {"fetch_qb_adj_data", "make_qb_epa_adj_chart"}

\* the functions an entry point calls, in order, each of which gets a table
\* of the season: update_all_qb_charts builds its four charts one after the
\* other; the other two callbacks return [] for a cleared selection
Calls(op, season) ==
    IF op = "update_all_qb_charts"
    THEN <<"make_all_qbs_epa_adj_chart", "make_all_qbs_yards_chart",
           "make_all_qbs_td_int_chart", "make_all_qbs_mean_cpoe_chart">>
    ELSE IF op \in {"update_qb_dropdown", "update_qb_epa_chart"}
            /\ season = NoSeason
    THEN <<>>
    ELSE IF op = "update_qb_epa_chart" THEN <<"make_qb_epa_adj_chart">>
    ELSE IF op = "fetch_qb_pbp_data_cached" THEN <<"fetch_qb_pbp_data">>
    ELSE <<op>>

\* what function f computes from table T
ResultOf(f, T, qb_name) ==
    CASE f = "fetch_qb_pbp_data" -> call_fetch_qb_pbp_data(T)
      [] f = "fetch_all_qb_pbp_epa" -> call_fetch_all_qb_pbp_epa(T)
      [] f = "fetch_adv_qb_pbp_stats" ->
             call_fetch_adv_qb_pbp_stats(T, qb_name)
      [] f = "fetch_all_qb_season_totals" ->
             call_fetch_all_qb_season_totals(T)
      [] f = "fetch_qb_adj_data" -> call_fetch_qb_adj_data(T)
      [] f = "make_all_qbs_epa_adj_chart" ->
             call_make_all_qbs_epa_adj_chart(T, qb_name)
      [] f = "make_all_qbs_yards_chart" ->
             call_make_all_qbs_yards_chart(T, qb_name)
      [] f = "make_all_qbs_td_int_chart" ->
             call_make_all_qbs_td_int_chart(T, qb_name)
      [] f = "make_all_qbs_mean_cpoe_chart" ->
             call_make_all_qbs_mean_cpoe_chart(T, qb_name)
      [] f = "make_qb_epa_adj_chart" -> call_make_qb_epa_adj_chart(T)
      [] f = "update_qb_dropdown" -> call_update_qb_dropdown(T)

----------------------------------------------------------------------------
(* The state machine.  A request runs in a slot: the entry point is        *)
(* called, and for each function of Calls in turn memoize looks the season *)
(* up, on a miss the body of fetch_qb_pbp_data reads the provider and      *)
(* builds the table in the request's own frame, memoize stores the table,  *)
(* and the function computes its result from it.  What a request does      *)
(* between two accesses of the store or the provider touches nothing other *)
(* requests see and is part of the step before it; ConcurrentSpec runs the  *)
(* body of fetch_qb_pbp_data statement by statement instead, so that the    *)
(* frame a request is building is a state of the model.                     *)

Requests == 1..MaxRequests

\* one client whose requests follow one another
OneClient == {1}

\* two clients: the requests of one overlap those of the other
TwoClients == {1, 2}

Idle ==
    [pc |-> "idle", op |-> "none", season |-> NoSeason, qb_name |-> NoQb,
     calls |-> <<>>, table |-> EmptyTable, adapter_calls |-> 0,
     status |-> "ok", value |-> {}]

NoneInFlight == [i \in Requests |-> Idle]

\* where a request with the calls cs left stands
PcOf(cs) ==
    IF cs = <<>> THEN "done"
    ELSE IF Head(cs) \in Uncached THEN "miss" ELSE "lookup"

\* request i goes on as q
Becomes(i, q) == inflight' = [inflight EXCEPT ![i] = q]

\* the function at the head of q.calls ended with outcome o: an error ends
\* the request, a value is collected; T is the normalized table the request
\* holds then
Proceeds(q, T, o) ==
    IF o.status # "ok"
    THEN [q EXCEPT !.pc = "done", !.status = o.status, !.value = {},
                   !.table = T]
    ELSE [q EXCEPT !.pc = PcOf(Tail(q.calls)), !.calls = Tail(q.calls),
                   !.value = @ \cup o.value, !.table = T]

\* the provider failed: the exception ends the request
Failed(q) ==
    [q EXCEPT !.pc = "done", !.status = "ExternalSourceError",
              !.value = {}, !.adapter_calls = @ + 1]

\* a client calls entry point op in slot i (free, or holding the finished
\* request of the client)
Call(i, op, season, qb_name) ==
    /\ inflight[i].pc \in {"idle", "done"}
    /\ Becomes(i, [Idle EXCEPT !.pc = PcOf(Calls(op, season)), !.op = op,
                               !.season = season, !.qb_name = qb_name,
                               !.calls = Calls(op, season)])
    /\ UNCHANGED <<feed, cache, now>>

fetch_qb_pbp_data(i) ==
    \E season \in DOMAIN feed : Call(i, "fetch_qb_pbp_data", season, NoQb)

fetch_qb_pbp_data_cached(i) ==
    \E season \in DOMAIN feed :
        Call(i, "fetch_qb_pbp_data_cached", season, NoQb)

fetch_all_qb_pbp_epa(i) ==
    \E season \in DOMAIN feed : Call(i, "fetch_all_qb_pbp_epa", season, NoQb)

fetch_adv_qb_pbp_stats(i) ==
    \E season \in DOMAIN feed, qb_name \in QbNames :
        Call(i, "fetch_adv_qb_pbp_stats", season, qb_name)

fetch_all_qb_season_totals(i) ==
    \E season \in DOMAIN feed :
        Call(i, "fetch_all_qb_season_totals", season, NoQb)

fetch_qb_adj_data(i) ==
    \E season \in DOMAIN feed : Call(i, "fetch_qb_adj_data", season, NoQb)

make_all_qbs_epa_adj_chart(i) ==
    \E season \in DOMAIN feed, qb_name \in QbNames \cup {NoQb} :
        Call(i, "make_all_qbs_epa_adj_chart", season, qb_name)

make_all_qbs_yards_chart(i) ==
    \E season \in DOMAIN feed, qb_name \in QbNames \cup {NoQb} :
        Call(i, "make_all_qbs_yards_chart", season, qb_name)

make_all_qbs_td_int_chart(i) ==
    \E season \in DOMAIN feed, qb_name \in QbNames \cup {NoQb} :
        Call(i, "make_all_qbs_td_int_chart", season, qb_name)

make_all_qbs_mean_cpoe_chart(i) ==
    \E season \in DOMAIN feed, qb_name \in QbNames \cup {NoQb} :
        Call(i, "make_all_qbs_mean_cpoe_chart", season, qb_name)

make_qb_epa_adj_chart(i) ==
    \E season \in DOMAIN feed :
        Call(i, "make_qb_epa_adj_chart", season, NoQb)

\* the callbacks of the season and quarterback dropdowns; the season
\* dropdown may be cleared
update_all_qb_charts(i) ==
    \E season \in DOMAIN feed \cup {NoSeason}, qb_name \in QbNames \cup {NoQb} :
        Call(i, "update_all_qb_charts", season, qb_name)

update_qb_dropdown(i) ==
    \E season \in DOMAIN feed \cup {NoSeason} :
        Call(i, "update_qb_dropdown", season, NoQb)

update_qb_epa_chart(i) ==
    \E season \in DOMAIN feed \cup {NoSeason} :
        Call(i, "update_qb_epa_chart", season, NoQb)

\* the positions of a request inside the body of fetch_qb_pbp_data, its
\* frame not yet the table it returns
Building == {"merged", "filtered", "flagged"}

\* mutant: single-flight done wrong: a request that misses the store while
\* another request builds the table of the same season takes the frame of
\* that request as it stands instead of running the body
request_looks_up_joins_flight(i) ==
    /\ inflight[i].pc = "lookup"
    /\ LET q == inflight[i]
           flights == {j \in Requests \ {i} :
                          /\ inflight[j].pc \in Building
                          /\ inflight[j].season = q.season}
       IN  IF Hit(cache, q.season)
           THEN \E o \in ResultOf(Head(q.calls), cache[q.season].table,
                                  q.qb_name) :
                    Becomes(i, Proceeds(q, cache[q.season].table, o))
           ELSE IF flights # {}
           THEN \E j \in flights :
                    Becomes(i, [q EXCEPT !.pc = "store",
                                         !.table = inflight[j].table])
           ELSE Becomes(i, [q EXCEPT !.pc = "miss"])
    /\ UNCHANGED <<feed, cache, now>>

\* memoize looks the season up: a stored table is handed to the caller
request_looks_up(i) ==
    /\ inflight[i].pc = "lookup"
    /\ LET q == inflight[i]
       IN  IF Hit(cache, q.season)
           THEN \E o \in ResultOf(Head(q.calls), cache[q.season].table,
                                  q.qb_name) :
                    Becomes(i, Proceeds(q, cache[q.season].table, o))
           ELSE Becomes(i, [q EXCEPT !.pc = "miss"])
    /\ UNCHANGED <<feed, cache, now>>

\* the body of fetch_qb_pbp_data runs: the provider is read and the
\* normalized table built from what it returned
request_reads_provider(i) ==
    /\ inflight[i].pc = "miss"
    /\ Head(inflight[i].calls) \notin Uncached
    /\ \E a \in import_pbp_data(inflight[i].season) :
           Becomes(i, IF a.failed THEN Failed(inflight[i])
                      ELSE [inflight[i] EXCEPT
                               !.pc = "store", !.adapter_calls = @ + 1,
                               !.table = dropbacks_true_qbs(a.pbp)])
    /\ UNCHANGED <<feed, cache, now>>

\* The same body statement by statement, for requests that run at the same
\* time: every frame is a local variable of the call.  The provider is read
\* and the context joined onto the dropbacks
request_merges(i) ==
    /\ inflight[i].pc = "miss"
    /\ Head(inflight[i].calls) \notin Uncached
    /\ \E a \in import_pbp_data(inflight[i].season) :
           Becomes(i, IF a.failed THEN Failed(inflight[i])
                      ELSE [inflight[i] EXCEPT
                               !.pc = "merged", !.adapter_calls = @ + 1,
                               !.table = dropbacks_merged(a.pbp)])
    /\ UNCHANGED <<feed, cache, now>>

\* the rows of the qualified passers are copied
request_filters(i) ==
    /\ inflight[i].pc = "merged"
    /\ Becomes(i, [inflight[i] EXCEPT
                      !.pc = "filtered",
                      !.table = dropbacks_true_qbs_copy(@)])
    /\ UNCHANGED <<feed, cache, now>>

\* the clutch_situation column is written into the copy
request_flags_clutch(i) ==
    /\ inflight[i].pc = "filtered"
    /\ Becomes(i, [inflight[i] EXCEPT
                      !.pc = "flagged", !.table = with_clutch_situation(@)])
    /\ UNCHANGED <<feed, cache, now>>

\* the adj_epa column is written into the copy, which the body returns
request_adjusts_epa(i) ==
    /\ inflight[i].pc = "flagged"
    /\ Becomes(i, [inflight[i] EXCEPT
                      !.pc = "store", !.table = with_adj_epa(@)])
    /\ UNCHANGED <<feed, cache, now>>

\* memoize stores the table the body returned and hands it to the caller
request_stores(i) ==
    /\ inflight[i].pc = "store"
    /\ LET q == inflight[i]
       IN  /\ cache' = Store(cache, q.season, q.table)
           /\ \E o \in ResultOf(Head(q.calls), q.table, q.qb_name) :
                  Becomes(i, Proceeds(q, q.table, o))
    /\ UNCHANGED <<feed, now>>

\* fetch_qb_adj_data of the home page reads the provider and summarizes
\* what it returned
request_reads_provider_uncached(i) ==
    /\ inflight[i].pc = "miss"
    /\ Head(inflight[i].calls) \in Uncached
    /\ LET q == inflight[i]
       IN  \E a \in import_pbp_data(q.season) :
               IF a.failed THEN Becomes(i, Failed(q))
               ELSE \E o \in ResultOf(Head(q.calls), a.pbp, q.qb_name) :
                        Becomes(i, Proceeds([q EXCEPT !.adapter_calls = @ + 1],
                                            q.table, o))
    /\ UNCHANGED <<feed, cache, now>>

\* time passes
Tick ==
    /\ now < MaxTicks * TickStep
    /\ now' = now + TickStep
    /\ UNCHANGED <<feed, cache, inflight>>

\* the provider publishes another table for a season
FeedChanges ==
    /\ \E season \in DOMAIN feed, t \in SystemTables :
           /\ t # feed[season]
           /\ feed' = [feed EXCEPT ![season] = t]
    /\ UNCHANGED <<cache, now, inflight>>

\* the data layer: two seasons, the memoized table, the clock, and two
\* clients of fetch_qb_pbp_data and of the season-EPA view built on it
Init ==
    /\ feed \in [Seasons -> SystemTables]
    /\ cache = [season \in Seasons |-> NoEntry]
    /\ now = 0
    /\ inflight = NoneInFlight

Next ==
    \/ \E i \in TwoClients :
           \/ fetch_qb_pbp_data(i)
           \/ fetch_all_qb_pbp_epa(i)
           \/ request_looks_up(i)
           \/ request_reads_provider(i)
           \/ request_stores(i)
    \/ Tick

Spec == Init /\ [][Next]_vars

\* the presentation layer on one season: a client of the chart builders
\* and of the callbacks, and the callbacks the season dropdown fires at the
\* same time (update_qb_dropdown, and update_qb_epa_chart of the home page)
PresentationInit ==
    /\ feed \in [{2023} -> SystemTables \cup {ScenarioTable, TiedQbs200}]
    /\ cache = [season \in {2023} |-> NoEntry]
    /\ now = 0
    /\ inflight = NoneInFlight

PresentationNext ==
    \/ \E i \in OneClient :
           \/ fetch_adv_qb_pbp_stats(i)
           \/ make_all_qbs_epa_adj_chart(i)
           \/ make_all_qbs_yards_chart(i)
           \/ make_all_qbs_td_int_chart(i)
           \/ make_all_qbs_mean_cpoe_chart(i)
           \/ make_qb_epa_adj_chart(i)
           \/ update_all_qb_charts(i)
    \/ \E i \in TwoClients :
           \/ update_qb_dropdown(i)
           \/ update_qb_epa_chart(i)
           \/ request_looks_up(i)
           \/ request_reads_provider(i)
           \/ request_stores(i)
           \/ request_reads_provider_uncached(i)

PresentationSpec == PresentationInit /\ [][PresentationNext]_vars

\* the data pipeline on one season: the provider's table is drawn from the
\* input families and a client calls the data entry points
PipelineInit ==
    /\ feed \in [{2023} -> PipelineTables]
    /\ cache = [season \in {2023} |-> NoEntry]
    /\ now = 0
    /\ inflight = NoneInFlight

PipelineNext ==
    \E i \in OneClient :
        \/ fetch_qb_pbp_data(i)
        \/ fetch_qb_pbp_data_cached(i)
        \/ fetch_all_qb_pbp_epa(i)
        \/ fetch_adv_qb_pbp_stats(i)
        \/ fetch_all_qb_season_totals(i)
        \/ fetch_qb_adj_data(i)
        \/ request_looks_up(i)
        \/ request_reads_provider(i)
        \/ request_stores(i)
        \/ request_reads_provider_uncached(i)

PipelineSpec == PipelineInit /\ [][PipelineNext]_vars

\* the memoized entry points on one season whose data changes over time,
\* called by two clients
FeedInit ==
    /\ feed \in [{2023} -> SystemTables]
    /\ cache = [season \in {2023} |-> NoEntry]
    /\ now = 0
    /\ inflight = NoneInFlight

FeedNext ==
    \/ \E i \in TwoClients :
           \/ fetch_all_qb_pbp_epa(i)
           \/ fetch_adv_qb_pbp_stats(i)
           \/ fetch_all_qb_season_totals(i)
           \/ request_looks_up(i)
           \/ request_reads_provider(i)
           \/ request_stores(i)
    \/ FeedChanges
    \/ Tick

FeedSpec == FeedInit /\ [][FeedNext]_vars

\* requests for one season that all run at the same time, the body of
\* fetch_qb_pbp_data statement by statement: each slot serves one request
ConcurrentInit ==
    /\ feed \in [{2023} -> SystemTables \cup {ScenarioTable}]
    /\ cache = [season \in {2023} |-> NoEntry]
    /\ now = 0
    /\ inflight = NoneInFlight

ConcurrentNext ==
    \E i \in Requests :
        \/ inflight[i].pc = "idle" /\ fetch_qb_pbp_data(i)
        \/ inflight[i].pc = "idle" /\ fetch_all_qb_pbp_epa(i)
        \/ inflight[i].pc = "idle" /\ fetch_all_qb_season_totals(i)
        \/ request_looks_up(i)
        \/ request_merges(i)
        \/ request_filters(i)
        \/ request_flags_clutch(i)
        \/ request_adjusts_epa(i)
        \/ request_stores(i)

ConcurrentSpec == ConcurrentInit /\ [][ConcurrentNext]_vars

----------------------------------------------------------------------------
(* Properties.  The counts and context values below are computed from the   *)
(* provider's table directly, not by the pipeline.                          *)

\* the slots whose request has ended; inflight[i] holds its outcome
Finished == {i \in Requests : inflight[i].pc = "done"}

\* the memoized function itself, called directly or through its wrapper
TableOps == {"fetch_qb_pbp_data", "fetch_qb_pbp_data_cached"}

\* the views built on the normalized table
CachedOps ==
    {"fetch_all_qb_pbp_epa", "fetch_adv_qb_pbp_stats",
     "fetch_all_qb_season_totals"}

MemoizedOps == TableOps \cup CachedOps

DataOps == MemoizedOps \cup {"fetch_qb_adj_data"}

PasserRows(pbp, p) ==
    {r \in DOMAIN pbp : r.qb_dropback = 1 /\ r.passer_player_name = p}

\* the number of dropbacks of passer p in the provider's table
DropbackCount(pbp, p) ==
    Sum([r \in PasserRows(pbp, p) |-> pbp[r]], PasserRows(pbp, p))

NamesIn(rows) == {q.passer_player_name : q \in rows}

\* C1: a passer with fewer than 150 dropbacks in the season appears in no
\* downstream table: every passer of the normalized table (stored, or
\* returned by fetch_qb_pbp_data), of the season-EPA summary (either
\* implementation), of the season totals and of the advanced view has at
\* least 150 dropbacks in the provider's table of that season.
C1_UnqualifiedNeverAppears ==
    /\ \A s \in DOMAIN feed :
           cache[s].present =>
               \A p \in Passers(cache[s].table) :
                   DropbackCount(feed[s], p) >= 150
    /\ \A i \in Finished : LET last == inflight[i] IN
           (last.op \in DataOps /\ last.status = "ok") =>
               \A p \in NamesIn(last.value) :
                   DropbackCount(feed[last.season], p) >= 150

\* a view was returned with rows while some passer of the season stayed
\* below the threshold
C1_Witness ==
    \E i \in Finished : LET last == inflight[i] IN
        /\ last.op = "fetch_all_qb_season_totals"
        /\ last.status = "ok"
        /\ last.value # {}
        /\ \E p \in QbNames :
               /\ DropbackCount(feed[last.season], p) > 0
               /\ DropbackCount(feed[last.season], p) < 150

\* C2: every quarterback of the season-EPA summary has at least 200
\* dropbacks, and the quarterbacks of the summary are among those of the
\* normalized table.
C2_SummaryAtLeast200 ==
    \A i \in Finished : LET last == inflight[i] IN
        /\ (last.op \in {"fetch_all_qb_pbp_epa", "fetch_qb_adj_data"}
                /\ last.status = "ok") =>
               \A p \in NamesIn(last.value) :
                   DropbackCount(feed[last.season], p) >= 200
        /\ (last.op = "fetch_all_qb_pbp_epa" /\ last.status = "ok") =>
               /\ cache[last.season].present
               /\ NamesIn(last.value)
                      \subseteq Passers(cache[last.season].table)

\* the summary has a row and the normalized table has a passer the summary
\* dropped
C2_Witness ==
    \E i \in Finished : LET last == inflight[i] IN
        /\ last.op = "fetch_all_qb_pbp_epa"
        /\ last.status = "ok"
        /\ last.value # {}
        /\ Passers(cache[last.season].table) \ NamesIn(last.value) # {}

\* C3: in the normalized table a play is flagged clutch exactly when its down
\* is 3 or 4, it has 7 or more yards to go, 300 or fewer seconds remain and
\* the score differential is between -7 and 7.
C3_ClutchFlag ==
    \A s \in DOMAIN feed :
        cache[s].present =>
            \A r \in DOMAIN cache[s].table :
                cache[s].table[r].clutch_situation
                    <=> (/\ r.down = 3 \/ r.down = 4
                         /\ r.ydstogo >= 7
                         /\ r.game_seconds_remaining <= 300
                         /\ r.score_differential >= -7
                         /\ r.score_differential <= 7)

\* a play on every boundary at once is flagged
C3_Witness ==
    \E s \in DOMAIN feed :
        /\ cache[s].present
        /\ \E r \in DOMAIN cache[s].table :
               /\ r.down = 4 /\ r.ydstogo = 7
               /\ r.game_seconds_remaining = 300
               /\ r.score_differential = -7
               /\ cache[s].table[r].clutch_situation

\* all dropbacks of the season faced by defense t / run by offense t
FacedBy(pbp, t) == {r \in DOMAIN pbp : r.qb_dropback = 1 /\ r.defteam = t}
RunBy(pbp, t) == {r \in DOMAIN pbp : r.qb_dropback = 1 /\ r.posteam = t}

MeanEpaAllowed(pbp, t) ==
    RDiv(RSum([r \in FacedBy(pbp, t) |-> RMul(Num(pbp[r]), r.epa)],
              FacedBy(pbp, t)),
         Num(Sum([r \in FacedBy(pbp, t) |-> pbp[r]], FacedBy(pbp, t))))

PressureRateAllowed(pbp, t) ==
    Rat(Sum([r \in RunBy(pbp, t) |-> pbp[r] * r.qb_hit], RunBy(pbp, t)),
        Sum([r \in RunBy(pbp, t) |-> pbp[r]], RunBy(pbp, t)))

\* C4: the adjusted EPA of a play of the normalized table is its epa minus
\* the mean epa of all dropbacks of the season against its defensive team,
\* divided by one plus the hits per dropback over all dropbacks of the
\* season of its offensive team.
C4_AdjustedEpa ==
    \A s \in DOMAIN feed :
        cache[s].present =>
            \A r \in DOMAIN cache[s].table :
                (r.defteam # NoTeam /\ r.posteam # NoTeam) =>
                    cache[s].table[r].adj_epa =
                        RDiv(RSub(r.epa, MeanEpaAllowed(feed[s], r.defteam)),
                             RAdd(Num(1),
                                  PressureRateAllowed(feed[s], r.posteam)))

\* the example: epa 0.5, epa allowed 0.1, pressure rate 0.25 give 0.32
C4_Witness ==
    \E s \in DOMAIN feed :
        /\ cache[s].present
        /\ \E r \in DOMAIN cache[s].table :
               /\ r.epa = Rat(1, 2)
               /\ cache[s].table[r].def_epa_per_dropback = Rat(1, 10)
               /\ cache[s].table[r].pressure_rate = Rat(1, 4)
               /\ cache[s].table[r].adj_epa = Rat(32, 100)

\* the dropbacks of passer p in the provider's table with the given clutch
\* flag, and those among them whose two teams both have a context entry
SideRows(pbp, p, flag) ==
    {r \in PasserRows(pbp, p) :
        (/\ r.down \in {3, 4} /\ r.ydstogo >= 7
         /\ r.game_seconds_remaining <= 300
         /\ r.score_differential \in -7..7) = flag}

WithContext(rows) ==
    {r \in rows : r.defteam # NoTeam /\ r.posteam # NoTeam}

SidePlays(pbp, p, flag) ==
    IF SideRows(pbp, p, flag) = {} THEN NaN
    ELSE Num(Sum([r \in WithContext(SideRows(pbp, p, flag)) |-> pbp[r]],
                 WithContext(SideRows(pbp, p, flag))))

\* C5 as stated: clutch_plays + non_clutch_plays is the quarterback's
\* dropbacks, for every quarterback of the summary of fetch_qb_adj_data.
C5_SplitSumsToDropbacks ==
    \A i \in Finished : LET last == inflight[i] IN
        (last.op = "fetch_qb_adj_data" /\ last.status = "ok") =>
            \A q \in last.value :
                RAdd(q.clutch_plays, q.non_clutch_plays) = Num(q.dropbacks)

\* the number of dropbacks of passer p whose two teams both have a context
\* entry (every team named on a dropback has one; a missing team has none)
ContextCount(pbp, p) ==
    Sum([r \in WithContext(PasserRows(pbp, p)) |-> pbp[r]],
        WithContext(PasserRows(pbp, p)))

\* C5 amended: in the summary of fetch_qb_adj_data each side counts the
\* quarterback's plays of that side that have an adjusted EPA (with epa on
\* every play: the plays whose two teams both have a context entry), and is
\* missing, not zero, when the quarterback has no play of that side.  So the
\* sum of the two is missing when the quarterback has no play on one side;
\* otherwise it is the number of the quarterback's dropbacks that have an
\* adjusted EPA, which is `dropbacks` exactly when all of them have one and
\* a smaller number when some have none.
C5_SplitCounts ==
    \A i \in Finished : LET last == inflight[i] IN
        (last.op = "fetch_qb_adj_data" /\ last.status = "ok") =>
            \A q \in last.value :
                LET pbp == feed[last.season]
                    p   == q.passer_player_name
                    sum == RAdd(q.clutch_plays, q.non_clutch_plays)
                IN  /\ q.dropbacks = DropbackCount(pbp, p)
                    /\ q.clutch_plays = SidePlays(pbp, p, TRUE)
                    /\ q.non_clutch_plays = SidePlays(pbp, p, FALSE)
                    /\ (SideRows(pbp, p, TRUE) = {}
                            \/ SideRows(pbp, p, FALSE) = {})
                           => IsNaN(sum)
                    /\ (SideRows(pbp, p, TRUE) # {}
                            /\ SideRows(pbp, p, FALSE) # {})
                           => /\ sum = Num(ContextCount(pbp, p))
                              /\ ContextCount(pbp, p) <= q.dropbacks
                              /\ (ContextCount(pbp, p) = q.dropbacks)
                                     <=> (WithContext(PasserRows(pbp, p))
                                              = PasserRows(pbp, p))

\* a quarterback with 150 other and 50 clutch plays against a known defense
\* and 50 plays without defensive team: 250 dropbacks, the two sides count
\* 50 and 150 plays and add up to 200
C5_Witness ==
    \E i \in Finished : LET last == inflight[i] IN
        /\ last.op = "fetch_qb_adj_data"
        /\ last.status = "ok"
        /\ ContextCount(feed[last.season], "A") = 200
        /\ \E q \in last.value :
               /\ last.value = {q}
               /\ q.passer_player_name = "A"
               /\ q.dropbacks = 250
               /\ q.clutch_plays = Num(50)
               /\ q.non_clutch_plays = Num(150)
               /\ RAdd(q.clutch_plays, q.non_clutch_plays) = Num(200)

ChartOps ==
    {"make_all_qbs_epa_adj_chart", "make_all_qbs_yards_chart",
     "make_all_qbs_td_int_chart", "make_all_qbs_mean_cpoe_chart",
     "update_all_qb_charts"}

\* the outcomes of the functions cs called one after the other, each on
\* table T: the first error ends the sequence, the values are collected
RECURSIVE Collected(_, _, _)
Collected(cs, T, qb_name) ==
    IF cs = <<>> THEN {Returned({})}
    ELSE UNION {IF o.status # "ok" THEN {o}
                ELSE {IF o2.status # "ok" THEN o2
                      ELSE Returned(o.value \cup o2.value)
                      : o2 \in Collected(Tail(cs), T, qb_name)}
                : o \in ResultOf(Head(cs), T, qb_name)}

\* the rows of a chart: its bars without their highlighting
ChartRows(value) ==
    {[chart |-> b.chart, trace |-> b.trace,
      passer_player_name |-> b.passer_player_name, x |-> b.x, pos |-> b.pos]
     : b \in value}

\* the row sets entry point op may draw from table T for the given name
\* (one for each order the sort may give to equal keys)
RowsDrawn(op, season, T, qb_name) ==
    {IF o.status = "ok" THEN ChartRows(o.value) ELSE {o.status}
     : o \in Collected(Calls(op, season), T, qb_name)}

\* a chart just returned has rows the same chart may have for any other
\* choice of quarterback, none included, and the other choice may give no
\* other rows
SameRowsForAnyName ==
    \A i \in Finished : LET last == inflight[i] IN
        (last.op \in ChartOps /\ last.status = "ok") =>
            /\ cache[last.season].present
            /\ \A other \in QbNames \cup {NoQb} :
                   /\ ChartRows(last.value)
                          \in RowsDrawn(last.op, last.season,
                                        cache[last.season].table, other)
                   /\ RowsDrawn(last.op, last.season,
                                cache[last.season].table, other)
                          = RowsDrawn(last.op, last.season,
                                      cache[last.season].table, last.qb_name)

\* C6 as stated: every entry point that takes a quarterback name returns
\* the same rows for any two names.
C6_NameNeverFilters ==
    /\ SameRowsForAnyName
    /\ \A i \in Finished : LET last == inflight[i] IN
           (last.op = "fetch_adv_qb_pbp_stats" /\ last.status = "ok") =>
               \A other \in QbNames :
                   \A o \in call_fetch_adv_qb_pbp_stats(
                                cache[last.season].table, other) :
                       o.value = last.value

\* C6 amended: the chart builders and update_all_qb_charts use the name for
\* highlighting only; fetch_adv_qb_pbp_stats returns the rows of the named
\* quarterback and no other.
C6_HighlightOnlyInCharts ==
    /\ SameRowsForAnyName
    /\ \A i \in Finished : LET last == inflight[i] IN
           (last.op = "fetch_adv_qb_pbp_stats" /\ last.status = "ok") =>
               /\ NamesIn(last.value) \subseteq {last.qb_name}
               /\ last.qb_name \in Passers(cache[last.season].table)
                      => NamesIn(last.value) = {last.qb_name}

\* a chart drawn for quarterback A shows A at full and B at half opacity
C6_Witness ==
    \E i \in Finished : LET last == inflight[i] IN
        /\ last.op = "make_all_qbs_epa_adj_chart"
        /\ last.status = "ok"
        /\ last.qb_name = "A"
        /\ \E a, b \in last.value :
               /\ a.passer_player_name = "A" /\ a.opacity = Num(1)
               /\ b.passer_player_name = "B" /\ b.opacity = Rat(1, 2)

\* no passer of the season has 150 dropbacks
NoQualifiedPlays(pbp) ==
    \A p \in QbNames : DropbackCount(pbp, p) < 150

\* C7: for a season without qualified plays none of the entry points built
\* on the normalized table returns a successful result.
C7_NoDataIsAnError ==
    \A i \in Finished : LET last == inflight[i] IN
        (last.op \in CachedOps /\ NoQualifiedPlays(feed[last.season]))
            => last.status # "ok"

\* C8: the season-EPA view never returns successfully without a row.
C8_NoEmptySuccess ==
    \A i \in Finished : LET last == inflight[i] IN
        (last.op = "fetch_all_qb_pbp_epa" /\ last.status = "ok")
            => last.value # {}

PresentationOps ==
    ChartOps \cup {"make_qb_epa_adj_chart", "update_qb_dropdown",
                   "update_qb_epa_chart"}

\* C9: a no-data error never escapes a chart builder or a callback.
C9_NoDataNeverEscapes ==
    \A i \in Finished : LET last == inflight[i] IN
        last.op \in PresentationOps => last.status # "ValueError"

\* request l ended as its entry point would on table T
Answered(l, T) ==
    [status |-> l.status, value |-> l.value]
        \in Collected(Calls(l.op, l.season), T, l.qb_name)

\* the steps of request i: the lookup, the read of the provider, the store
LooksUp(i) == inflight[i].pc = "lookup" /\ inflight'[i] # inflight[i]
ReadsProvider(i) == inflight[i].pc = "miss" /\ inflight'[i] # inflight[i]
Stores(i) == inflight[i].pc = "store" /\ inflight'[i] # inflight[i]

\* an entry of season s stored less than an hour ago
StoredWithinTheHour(s) ==
    cache[s].present /\ now - (cache[s].expires - 3600) < 3600

\* one step of request i for the normalized table of season q.season
C10_Step(i) ==
    LET q == inflight[i]
        s == q.season
    IN  /\ LooksUp(i) =>
               /\ cache' = cache
               /\ inflight'[i].adapter_calls = q.adapter_calls
               /\ IF StoredWithinTheHour(s)
                  THEN \* answered from the stored table of s
                       /\ inflight'[i].pc = "done"
                       /\ inflight'[i].table = cache[s].table
                       /\ Answered(inflight'[i], cache[s].table)
                  ELSE \* never stored, or expired: the provider is next
                       inflight'[i].pc = "miss"
        /\ ReadsProvider(i) =>
               /\ cache' = cache
               /\ inflight'[i].adapter_calls = q.adapter_calls + 1
               /\ \/ /\ inflight'[i].pc = "done"
                     /\ inflight'[i].status = "ExternalSourceError"
                  \/ /\ inflight'[i].pc = "store"
                     /\ inflight'[i].table = dropbacks_true_qbs(feed[s])
        /\ Stores(i) =>
               /\ cache'[s] = [present |-> TRUE, table |-> q.table,
                               expires |-> now + 3600]
               /\ \A other \in DOMAIN cache \ {s} :
                      cache'[other] = cache[other]
               /\ inflight'[i].pc = "done"
               /\ inflight'[i].adapter_calls = q.adapter_calls
               /\ Answered(inflight'[i], q.table)

\* C10: a request for season S whose lookup finds no table of S stored
\* within the last hour reads the provider once, and the normalized table of
\* S is stored for one hour from then; a request whose lookup finds one is
\* answered from it without reading the provider; only a store of a request
\* for S changes the entry of S, so every stored table is the normalized
\* table of its own season and a finished request read the provider at most
\* once.  (Requests of fetch_qb_pbp_data and of the entry points built on
\* it.)
C10_CachedForAnHour ==
    /\ [](\A s \in DOMAIN feed :
              cache[s].present =>
                  /\ cache[s].table = dropbacks_true_qbs(feed[s])
                  /\ cache[s].expires <= now + 3600)
    /\ [][/\ \A i \in Requests : C10_Step(i)
          /\ cache' # cache => \E i \in Requests : Stores(i)]_vars

\* time has passed, a request was answered from the store without a read of
\* the provider, and the other season's stored table is a different one
C10_Witness ==
    \E i \in Finished : LET last == inflight[i] IN
        /\ last.op \in MemoizedOps
        /\ last.status = "ok"
        /\ last.adapter_calls = 0
        /\ now > 0
        /\ cache[last.season].present
        /\ last.table = cache[last.season].table
        /\ \E other \in DOMAIN cache \ {last.season} :
               /\ cache[other].present
               /\ cache[other].table # cache[last.season].table

\* the passers named on a dropback of the provider's table
PassersOf(pbp) ==
    {r.passer_player_name : r \in {x \in DOMAIN pbp : x.qb_dropback = 1}}
        \ {NoName}

\* C11: in the summary of fetch_qb_adj_data a quarterback without a play on
\* one side of the clutch split has that side's mean, total and play count
\* missing (not zero), the difference of the two means is missing whenever
\* one of them is, and the row of every quarterback with at least 200
\* dropbacks is there; in the advanced view the means of a side without
\* plays are missing as well.
C11_MissingNotZero ==
    \A i \in Finished : LET last == inflight[i] IN
        /\ (last.op = "fetch_qb_adj_data" /\ last.status = "ok") =>
               LET pbp == feed[last.season]
               IN  /\ \A p \in PassersOf(pbp) :
                          DropbackCount(pbp, p) >= 200
                              => p \in NamesIn(last.value)
                   /\ \A q \in last.value :
                          /\ SideRows(pbp, q.passer_player_name, TRUE) = {} =>
                                 /\ IsNaN(q.clutch_avg_adj_epa)
                                 /\ IsNaN(q.clutch_total_adj_epa)
                                 /\ IsNaN(q.clutch_plays)
                          /\ SideRows(pbp, q.passer_player_name, FALSE) = {} =>
                                 /\ IsNaN(q.non_clutch_avg_adj_epa)
                                 /\ IsNaN(q.non_clutch_total_adj_epa)
                                 /\ IsNaN(q.non_clutch_plays)
                          /\ (IsNaN(q.clutch_avg_adj_epa)
                                 \/ IsNaN(q.non_clutch_avg_adj_epa)) =>
                                 IsNaN(q.clutch_vs_non_clutch_adj_diff)
        /\ (last.op = "fetch_adv_qb_pbp_stats" /\ last.status = "ok") =>
               \A q \in last.value :
                   /\ SideRows(feed[last.season], q.passer_player_name, TRUE)
                          = {} => q.clutch = NoAdvMeans
                   /\ SideRows(feed[last.season], q.passer_player_name, FALSE)
                          = {} => q.non_clutch = NoAdvMeans

\* a listed quarterback all of whose dropbacks are outside clutch situations
C11_Witness ==
    \E i \in Finished : LET last == inflight[i] IN
        /\ last.op = "fetch_qb_adj_data"
        /\ last.status = "ok"
        /\ \E q \in last.value :
               /\ q.dropbacks >= 200
               /\ SideRows(feed[last.season], q.passer_player_name, TRUE) = {}
               /\ IsNaN(q.clutch_plays)
               /\ q.non_clutch_plays = Num(q.dropbacks)
               /\ IsNaN(q.clutch_vs_non_clutch_adj_diff)

\* C12: a play whose offensive or defensive team has no context entry
\* carries missing context values in the normalized table, and is not
\* counted for qualification: every passer of the normalized table has at
\* least 150 dropbacks with both context entries.
C12_ContextlessNotCounted ==
    \A s \in DOMAIN feed :
        cache[s].present =>
            /\ \A r \in DOMAIN cache[s].table :
                   /\ r.defteam = NoTeam =>
                          IsNaN(cache[s].table[r].def_epa_per_dropback)
                   /\ r.posteam = NoTeam =>
                          IsNaN(cache[s].table[r].pressure_rate)
            /\ \A r \in DOMAIN cache[s].table :
                   ContextCount(feed[s], r.passer_player_name) >= min_dropbacks

\* a rate that is a number between 0 and 1
InUnit(x) == IsFinite(x) /\ 0 <= x[1] /\ x[1] <= x[2]

\* C14: with hit and sack flags of 0 or 1, every team of a context mapping
\* has at least one dropback and pressure and sack rates between 0 and 1;
\* so for every play of the normalized table with an offensive context the
\* divisor 1 + pressure_rate is at least 1, and the adjusted EPA is a finite
\* number whenever the play's epa and defensive context are.
C14_RatesInUnitInterval ==
    \A s \in DOMAIN feed :
        LET d    == Dropbacks(feed[s])
            defm == def_metrics(d)
            olm  == ol_metrics(d)
        IN  /\ \A t \in DOMAIN defm :
                   /\ defm[t].def_dropbacks >= 1
                   /\ InUnit(defm[t].def_pressure_rate)
            /\ \A t \in DOMAIN olm :
                   /\ olm[t].dropbacks >= 1
                   /\ InUnit(olm[t].pressure_rate)
                   /\ InUnit(olm[t].sack_rate)
            /\ cache[s].present =>
                   \A r \in DOMAIN cache[s].table :
                       LET c == cache[s].table[r]
                       IN  ~IsNaN(c.pressure_rate) =>
                               /\ InUnit(c.pressure_rate)
                               /\ ~RLess(RAdd(Num(1), c.pressure_rate), Num(1))
                               /\ (IsFinite(r.epa)
                                      /\ IsFinite(c.def_epa_per_dropback))
                                      => IsFinite(c.adj_epa)

\* a play of the normalized table whose offense was hit on every dropback:
\* the pressure rate is 1 and the epa difference is halved
C14_Witness ==
    \E s \in DOMAIN feed :
        /\ cache[s].present
        /\ \E r \in DOMAIN cache[s].table :
               LET c == cache[s].table[r]
               IN  /\ c.pressure_rate = Num(1)
                   /\ IsFinite(c.adj_epa)
                   /\ c.adj_epa =
                         RDiv(RSub(r.epa, c.def_epa_per_dropback), Num(2))

\* the number of rows of passer p in the normalized table T
NormalizedCount(T, p) == Sum([r \in RowsOf(T, p) |-> T[r].n], RowsOf(T, p))

\* C15: the joins neither drop nor duplicate plays: a passer has in the
\* normalized table all of its dropbacks if these are at least 150 and none
\* otherwise, and the dropbacks value of the season-EPA summary is that same
\* number, so the summary lists exactly the passers with at least 200
\* dropbacks in the provider's table.
C15_SameCount ==
    \A i \in Finished : LET last == inflight[i] IN
        (last.op = "fetch_all_qb_pbp_epa" /\ last.status = "ok") =>
            LET pbp == feed[last.season]
                T   == cache[last.season].table
            IN  /\ cache[last.season].present
                /\ \A p \in PassersOf(pbp) :
                       NormalizedCount(T, p) =
                           IF DropbackCount(pbp, p) >= 150
                           THEN DropbackCount(pbp, p) ELSE 0
                /\ \A q \in last.value :
                       /\ q.dropbacks
                              = NormalizedCount(T, q.passer_player_name)
                       /\ q.dropbacks
                              = DropbackCount(pbp, q.passer_player_name)
                /\ NamesIn(last.value) =
                       {p \in PassersOf(pbp) : DropbackCount(pbp, p) >= 200}

\* a listed quarterback with fewer than 200 dropbacks that have both
\* context entries
C15_Witness ==
    \E i \in Finished : LET last == inflight[i] IN
        /\ last.op = "fetch_all_qb_pbp_epa"
        /\ last.status = "ok"
        /\ \E q \in last.value :
               /\ q.dropbacks >= 200
               /\ ContextCount(feed[last.season], q.passer_player_name) < 200

\* one step of request i of a view built on the normalized table
C16_Step(i) ==
    LET q == inflight[i]
        s == q.season
    IN  /\ (LooksUp(i) /\ cache[s].present /\ now < cache[s].expires
               /\ IsEmpty(cache[s].table)) =>
               \* the stored empty table answers, whatever the feed holds
               /\ inflight'[i].pc = "done"
               /\ inflight'[i].adapter_calls = 0
               /\ cache' = cache
               /\ IF q.op = "fetch_all_qb_season_totals"
                  THEN inflight'[i].status = "ok" /\ inflight'[i].value = {}
                  ELSE inflight'[i].status = "ValueError"
        /\ (LooksUp(i) /\ (~cache[s].present \/ now >= cache[s].expires)) =>
               \* nothing stored or expired: the provider is read next
               inflight'[i].pc = "miss" /\ cache' = cache
        /\ ReadsProvider(i) =>
               \* a failure ends the request and stores nothing
               /\ cache' = cache
               /\ inflight'[i].adapter_calls = 1
               /\ \/ /\ inflight'[i].pc = "done"
                     /\ inflight'[i].status = "ExternalSourceError"
                  \/ /\ inflight'[i].pc = "store"
                     /\ inflight'[i].table = dropbacks_true_qbs(feed[s])
        /\ Stores(i) =>
               \* an empty table is stored like any other
               /\ cache'[s].present
               /\ cache'[s].expires = now + 3600
               /\ cache'[s].table = q.table

\* C16: an empty normalized table is stored like any other: while it is
\* stored (one hour) every request for the season that looks it up is
\* answered from it without reading the provider, the season-EPA and
\* advanced views raising the no-data error and the season totals returning
\* an empty table, even when the provider has data by then; a request in
\* which the provider fails stores nothing, so the store is as it was and
\* the next lookup that misses reads the provider again.
C16_EmptyTableCached ==
    [][\A i \in Requests : C16_Step(i)]_vars

\* a request answered with the no-data error from the stored empty table
\* although the provider now has a qualified passer for the season
C16_Witness ==
    \E i \in Finished : LET last == inflight[i] IN
        /\ last.op \in CachedOps
        /\ last.adapter_calls = 0
        /\ last.status = "ValueError"
        /\ cache[last.season].present
        /\ IsEmpty(cache[last.season].table)
        /\ DropbackCount(feed[last.season], "A") >= 200

\* the normalized table a single request for the season computes, its body
\* run in one piece
SequentialTable(s) == dropbacks_true_qbs(feed[s])

\* the columns the normalized table adds to the provider's
NormalizedColumns ==
    {"n", "def_epa_per_dropback", "def_success_rate_allowed",
     "def_pressure_rate", "pressure_rate", "sack_rate", "clutch_situation",
     "adj_epa"}

\* T is completely built from the provider's table pbp: its rows are the
\* dropbacks of the passers with at least 150 of them, each as often as the
\* provider has it and with every column
CompleteFor(T, pbp) ==
    /\ DOMAIN T = {r \in DOMAIN pbp :
                      /\ r.qb_dropback = 1
                      /\ r.passer_player_name # NoName
                      /\ DropbackCount(pbp, r.passer_player_name)
                             >= min_dropbacks}
    /\ \A r \in DOMAIN T :
           /\ DOMAIN T[r] = NormalizedColumns
           /\ T[r].n = pbp[r]

\* the table is completely built and is the one a single request computes
AsSequential(T, s) == CompleteFor(T, feed[s]) /\ T = SequentialTable(s)

\* C13: however the statements of concurrent requests for a season
\* interleave, each request that missed the store reads the provider itself
\* (no single flight); the frame a request is building is seen by no other
\* request: the store holds, and every entry point is handed, only the
\* completely built table, equal to the one a single request computes; each
\* request returns what its entry point computes from that table, so two
\* requests of one entry point return the same.
C13_ConcurrentSameResult ==
    /\ \A s \in DOMAIN feed :
           cache[s].present => AsSequential(cache[s].table, s)
    /\ \A i \in Requests :
           LET q == inflight[i]
           IN  /\ q.pc \in Building \cup {"store"} => q.adapter_calls = 1
               /\ q.pc = "store" => AsSequential(q.table, q.season)
               /\ (q.pc = "done" /\ q.status # "ExternalSourceError") =>
                      /\ AsSequential(q.table, q.season)
                      /\ Answered(q, SequentialTable(q.season))
               /\ (q.pc = "done" /\ q.status = "ExternalSourceError") =>
                      q.adapter_calls = 1
    /\ \A i, j \in Finished :
           (/\ inflight[i].op = inflight[j].op
            /\ inflight[i].season = inflight[j].season
            /\ inflight[i].status # "ExternalSourceError"
            /\ inflight[j].status # "ExternalSourceError")
               => /\ inflight[i].status = inflight[j].status
                  /\ inflight[i].value = inflight[j].value

\* two requests of the season-EPA summary both missed the store, both read
\* the provider and built the table, and both returned the same rows; the
\* store holds the table they were handed
C13_Witness ==
    \E i, j \in Requests :
        /\ i # j
        /\ inflight[i].pc = "done" /\ inflight[j].pc = "done"
        /\ inflight[i].op = "fetch_all_qb_pbp_epa"
        /\ inflight[j].op = "fetch_all_qb_pbp_epa"
        /\ inflight[i].season = inflight[j].season
        /\ inflight[i].adapter_calls = 1 /\ inflight[j].adapter_calls = 1
        /\ inflight[i].status = "ok" /\ inflight[j].status = "ok"
        /\ inflight[i].value # {}
        /\ inflight[i].value = inflight[j].value
        /\ cache[inflight[i].season].table = inflight[i].table
        /\ inflight[j].table = inflight[i].table

====
